---- MODULE Spec2Model ----
(***************************************************************************)
(* Model of strawberry/http/async_base_view.py (AsyncBaseHTTPView).        *)
(*                                                                         *)
(* Spec    : the heartbeat multiplexer built by _stream_with_heartbeat     *)
(*           around the frame stream of _get_stream, run on an asyncio     *)
(*           event loop with a clock.                                      *)
(* SpecLive: the multiplexer read to its end by a consumer that keeps      *)
(*           reading, on a fair event loop.                                *)
(* SpecRun : one request through run() / execute_operation() /             *)
(*           parse_http_body().                                            *)
(***************************************************************************)
EXTENDS Integers, Sequences, FiniteSets, TLC

\* ------------------------------------------------------------------------
\* Bounds of the model
\* ------------------------------------------------------------------------
\* largest number of results the subscription source produces
MaxItems == 3

\* latest instant (seconds) at which the source produces or terminates
MaxTime == 8

\* ------------------------------------------------------------------------
\* Program constants
\* ------------------------------------------------------------------------
\* asyncio.Queue(1)
maxsize == 1

\* asyncio.sleep(5)
HeartbeatSleep == 5

VARIABLES
    now,             \* event-loop clock, in seconds
    result,          \* the subscription source handed to _get_stream (input)
    prompt,          \* TRUE: the output's consumer never suspends between reads
    src_pos,         \* number of frames stream() has yielded so far
    queue,           \* asyncio.Queue(1) of (raised, data) pairs
    cancelling,      \* the nonlocal flag of _stream_with_heartbeat
    task,            \* asyncio task running drain()
    heartbeat_task,  \* asyncio task running heartbeat()
    merged_pc,       \* position of the merged() generator
    call_site,       \* which call of cancel_tasks() is running
    exit_kind,       \* why merged() left its loop
    outcome,         \* what the consumer of merged() saw last
    out,             \* frames yielded by merged()
    pushed,          \* every (raised, data) pair put into queue, in order
    teardowns        \* number of cancel_tasks() calls begun

streamVars == <<now, result, prompt, src_pos, queue, cancelling, task,
                heartbeat_task, merged_pc, call_site, exit_kind, outcome,
                out, pushed, teardowns>>

VARIABLES
    request,                  \* the inbound request, as its adapter shows it
    view,                     \* the view's configuration
    run_pc,                   \* position of run()
    request_data,             \* GraphQLRequestData built by parse_http_body
    allowed_operation_types,  \* the local of execute_operation
    engine,                   \* what the schema's execute / subscribe gave
    parsers,                  \* parsing strategies entered, in order
    calls,                    \* collaborators invoked by run(), in order
    response                  \* what run() returned or raised

runVars == <<request, view, run_pc, request_data, allowed_operation_types,
             engine, parsers, calls, response>>

\* ------------------------------------------------------------------------
\* Frames
\* ------------------------------------------------------------------------
\* encode_json of {} and of {"payload": response}
EmptyObject == << >>

PayloadObject(value) == <<"payload", value>>

\* encode_multipart_data: the joined parts, kept as the list that is joined
encode_multipart_data(data, separator) ==
    <<"CRLF--", separator, "CRLF", "Content-Type: application/json", "CRLF",
      "CRLF", data, "LF">>

\* the frame heartbeat() pushes
HeartbeatFrame == encode_multipart_data(EmptyObject, "graphql")

\* the frame stream() yields for the i-th result
PayloadFrame(i) == encode_multipart_data(PayloadObject(i), "graphql")

\* the closing boundary stream() yields once the results are exhausted
ClosingFrame == <<"CRLF--", "graphql", "--", "CRLF">>

\* the exception a failing source raises
SourceError == <<"Exception", "source">>

\* the exception a source raises while it is being cancelled
CleanupError == <<"Exception", "cleanup">>

NoItem == << >>

\* ------------------------------------------------------------------------
\* Inputs: the subscription source and the consumer
\* ------------------------------------------------------------------------
RECURSIVE Increasing(_)
Increasing(s) ==
    IF Len(s) <= 1 THEN TRUE
    ELSE s[1] < s[2] /\ Increasing(Tail(s))

\* arrival instants of the results: strictly increasing, within 1..MaxTime
Schedules ==
    UNION { { s \in [1..n -> 1..MaxTime] : Increasing(s) } : n \in 0..MaxItems }

Last(s) == s[Len(s)]

\* a source: when each result arrives, when and how the source terminates,
\* and what it does when the task iterating it is cancelled
Sources ==
    { [times |-> s, end_at |-> e, ending |-> k, on_cancel |-> c] :
        s \in Schedules, e \in 1..MaxTime,
        k \in {"exhausted", "raises"}, c \in {"propagate", "raise"} }

ValidSource(r) ==
    /\ r.times # << >> => r.end_at \in {Last(r.times), MaxTime}
    /\ r.times = << >> => r.end_at \in {1, MaxTime}

\* ------------------------------------------------------------------------
\* asyncio tasks
\* ------------------------------------------------------------------------
Settled(t) == t.pc \in {"done", "cancelled", "failed"}

\* Task.done()
done(t) == Settled(t)

\* Task.cancel() without effect
cancel_Ignored(t) == t

\* Task.cancel(): a settled task ignores it, any other gets CancelledError
\* thrown in at its suspension point the next time it is stepped
cancel(t) == IF Settled(t) THEN t ELSE [t EXCEPT !.must_cancel = TRUE]

\* Queue.full() of an unbounded queue, asyncio.Queue()
full_Unbounded(q) == FALSE

\* Queue.full() with the bound off by one
full_OffByOne(q) == Len(q) > maxsize

\* Queue.full()
full(q) == Len(q) >= maxsize

NewTask == [pc |-> "new", pending |-> NoItem, then |-> "none",
            must_cancel |-> FALSE]

NoTask == [pc |-> "none", pending |-> NoItem, then |-> "none",
           must_cancel |-> FALSE]

\* the instant of the next event of the source
NextSourceTime ==
    IF src_pos < Len(result.times) THEN result.times[src_pos + 1]
    ELSE result.end_at

\* merged() is executing (it holds the event loop: no other task can step)
MergedRunning ==
    \/ merged_pc \in {"start", "loop", "cancel_tasks", "cancel_heartbeat",
                      "returned", "raised"}
    \/ merged_pc = "await_task" /\ Settled(task)
    \/ merged_pc = "await_heartbeat" /\ Settled(heartbeat_task)

DrainReady ==
    /\ task.pc \in {"new", "src", "put"}
    /\ \/ task.must_cancel
       \/ task.pc = "new"
       \/ task.pc = "src" /\ NextSourceTime <= now
       \/ task.pc = "put" /\ ~full(queue)

HeartbeatReady ==
    /\ heartbeat_task.pc \in {"new", "sleep", "put"}
    /\ \/ heartbeat_task.must_cancel
       \/ heartbeat_task.pc = "new"
       \/ heartbeat_task.pc = "sleep" /\ heartbeat_task.wake <= now
       \/ heartbeat_task.pc = "put" /\ ~full(queue)

MergedReady == merged_pc = "get" /\ queue # << >>

\* ------------------------------------------------------------------------
\* Initial state: _stream_with_heartbeat(stream) has returned merged
\* ------------------------------------------------------------------------
StreamInit ==
    /\ now = 0
    /\ result \in { r \in Sources : ValidSource(r) }
    /\ prompt \in BOOLEAN
    /\ src_pos = 0
    /\ queue = << >>
    /\ cancelling = FALSE
    /\ task = NoTask
    /\ heartbeat_task = NoTask @@ [wake |-> 0]
    /\ merged_pc = "start"
    /\ call_site = "none"
    /\ exit_kind = "none"
    /\ outcome = "open"
    /\ out = << >>
    /\ pushed = << >>
    /\ teardowns = 0

\* ------------------------------------------------------------------------
\* drain()
\* ------------------------------------------------------------------------
\* the task starts: stream() is called and its first frame awaited
DrainStart ==
    /\ ~MergedRunning
    /\ task.pc = "new" /\ ~task.must_cancel
    /\ task' = [task EXCEPT !.pc = "src"]
    /\ UNCHANGED <<now, result, prompt, src_pos, queue, cancelling,
                   heartbeat_task, merged_pc, call_site, exit_kind, outcome,
                   out, pushed, teardowns>>
    /\ UNCHANGED runVars

\* await queue.put(item) by drain(): done at once unless the queue is full
DrainPutItem(item, then) ==
    IF full(queue)
    THEN /\ task' = [task EXCEPT !.pc = "put", !.pending = item,
                                 !.then = then]
         /\ UNCHANGED <<queue, pushed>>
    ELSE /\ queue' = Append(queue, item)
         /\ pushed' = Append(pushed, item)
         /\ task' = [task EXCEPT !.pc = then, !.pending = NoItem,
                                 !.then = "none"]

\* a result arrives: stream() yields its frame and drain() puts it
DrainNext ==
    /\ ~MergedRunning
    /\ task.pc = "src" /\ ~task.must_cancel
    /\ src_pos < Len(result.times)
    /\ result.times[src_pos + 1] <= now
    /\ src_pos' = src_pos + 1
    /\ DrainPutItem(<<FALSE, PayloadFrame(src_pos + 1)>>, "src")
    /\ UNCHANGED <<now, result, prompt, cancelling, heartbeat_task,
                   merged_pc, call_site, exit_kind, outcome, out, teardowns>>
    /\ UNCHANGED runVars

\* the results are exhausted: stream() yields the closing boundary, drain()
\* puts it, stream() ends and drain() returns
DrainExhausted ==
    /\ ~MergedRunning
    /\ task.pc = "src" /\ ~task.must_cancel
    /\ src_pos = Len(result.times)
    /\ result.ending = "exhausted"
    /\ result.end_at <= now
    /\ src_pos' = src_pos + 1
    /\ DrainPutItem(<<FALSE, ClosingFrame>>, "done")
    /\ UNCHANGED <<now, result, prompt, cancelling, heartbeat_task,
                   merged_pc, call_site, exit_kind, outcome, out, teardowns>>
    /\ UNCHANGED runVars

\* drain() putting the error item whatever the cancelling flag
DrainExcept_AlwaysPut(e) == DrainPutItem(<<TRUE, e>>, "done")

\* except Exception as e: put (True, e) unless cancelling, else re-raise
DrainExcept(e) ==
    IF ~cancelling
    THEN DrainPutItem(<<TRUE, e>>, "done")
    ELSE /\ task' = [task EXCEPT !.pc = "failed", !.pending = NoItem,
                                 !.then = "none", !.must_cancel = FALSE]
         /\ UNCHANGED <<queue, pushed>>

\* the source raises
DrainRaises ==
    /\ ~MergedRunning
    /\ task.pc = "src" /\ ~task.must_cancel
    /\ src_pos = Len(result.times)
    /\ result.ending = "raises"
    /\ result.end_at <= now
    /\ DrainExcept(SourceError)
    /\ UNCHANGED <<now, result, prompt, src_pos, cancelling, heartbeat_task,
                   merged_pc, call_site, exit_kind, outcome, out, teardowns>>
    /\ UNCHANGED runVars

\* a put that found the queue full is resumed once there is room
DrainPut ==
    /\ ~MergedRunning
    /\ task.pc = "put" /\ ~task.must_cancel
    /\ ~full(queue)
    /\ DrainPutItem(task.pending, task.then)
    /\ UNCHANGED <<now, result, prompt, src_pos, cancelling, heartbeat_task,
                   merged_pc, call_site, exit_kind, outcome, out, teardowns>>
    /\ UNCHANGED runVars

\* CancelledError is thrown into drain() where it is suspended.  Inside
\* queue.put (or before its first step) the task ends cancelled: except
\* Exception does not catch CancelledError.  Inside the source, the source
\* either lets it through or raises an exception of its own, which drain()
\* handles in its except clause.
DrainCancelled ==
    /\ ~MergedRunning
    /\ task.pc \in {"new", "src", "put"} /\ task.must_cancel
    /\ IF task.pc = "src" /\ result.on_cancel = "raise"
       THEN DrainExcept(CleanupError)
       ELSE /\ task' = [task EXCEPT !.pc = "cancelled", !.pending = NoItem,
                                    !.then = "none", !.must_cancel = FALSE]
            /\ UNCHANGED <<queue, pushed>>
    /\ UNCHANGED <<now, result, prompt, src_pos, cancelling, heartbeat_task,
                   merged_pc, call_site, exit_kind, outcome, out, teardowns>>
    /\ UNCHANGED runVars

\* ------------------------------------------------------------------------
\* heartbeat()
\* ------------------------------------------------------------------------
\* heartbeat() putting its frame at the head of the queue without waiting
HeartbeatPutItem_Overtaking ==
    /\ queue' = <<<<FALSE, HeartbeatFrame>>>> \o queue
    /\ pushed' = Append(pushed, <<FALSE, HeartbeatFrame>>)
    /\ heartbeat_task' = [heartbeat_task EXCEPT
                             !.pc = "sleep",
                             !.wake = now + HeartbeatSleep]

\* heartbeat() without its loop: the task returns after its first put
HeartbeatPutItem_Once ==
    IF full(queue)
    THEN /\ heartbeat_task' = [heartbeat_task EXCEPT !.pc = "put"]
         /\ UNCHANGED <<queue, pushed>>
    ELSE /\ queue' = Append(queue, <<FALSE, HeartbeatFrame>>)
         /\ pushed' = Append(pushed, <<FALSE, HeartbeatFrame>>)
         /\ heartbeat_task' = [heartbeat_task EXCEPT !.pc = "done"]

\* await queue.put((False, frame)) then await asyncio.sleep(5)
HeartbeatPutItem ==
    IF full(queue)
    THEN /\ heartbeat_task' = [heartbeat_task EXCEPT !.pc = "put"]
         /\ UNCHANGED <<queue, pushed>>
    ELSE /\ queue' = Append(queue, <<FALSE, HeartbeatFrame>>)
         /\ pushed' = Append(pushed, <<FALSE, HeartbeatFrame>>)
         /\ heartbeat_task' = [heartbeat_task EXCEPT
                                  !.pc = "sleep",
                                  !.wake = now + HeartbeatSleep]

\* heartbeat() sleeping before its first put
HeartbeatBeat_SleepFirst ==
    /\ ~MergedRunning
    /\ ~heartbeat_task.must_cancel
    /\ \/ heartbeat_task.pc = "new"
       \/ heartbeat_task.pc = "sleep" /\ heartbeat_task.wake <= now
    /\ IF heartbeat_task.pc = "new"
       THEN /\ heartbeat_task' = [heartbeat_task EXCEPT
                                     !.pc = "sleep",
                                     !.wake = now + HeartbeatSleep]
            /\ UNCHANGED <<queue, pushed>>
       ELSE HeartbeatPutItem
    /\ UNCHANGED <<now, result, prompt, src_pos, cancelling, task, merged_pc,
                   call_site, exit_kind, outcome, out, teardowns>>
    /\ UNCHANGED runVars

\* one turn of while True, entered at the task's start or when sleep ends
HeartbeatBeat ==
    /\ ~MergedRunning
    /\ ~heartbeat_task.must_cancel
    /\ \/ heartbeat_task.pc = "new"
       \/ heartbeat_task.pc = "sleep" /\ heartbeat_task.wake <= now
    /\ HeartbeatPutItem
    /\ UNCHANGED <<now, result, prompt, src_pos, cancelling, task, merged_pc,
                   call_site, exit_kind, outcome, out, teardowns>>
    /\ UNCHANGED runVars

\* a put that found the queue full is resumed once there is room
HeartbeatPut ==
    /\ ~MergedRunning
    /\ heartbeat_task.pc = "put" /\ ~heartbeat_task.must_cancel
    /\ ~full(queue)
    /\ HeartbeatPutItem
    /\ UNCHANGED <<now, result, prompt, src_pos, cancelling, task, merged_pc,
                   call_site, exit_kind, outcome, out, teardowns>>
    /\ UNCHANGED runVars

\* CancelledError is thrown into heartbeat(): nothing catches it
HeartbeatCancelled ==
    /\ ~MergedRunning
    /\ heartbeat_task.pc \in {"new", "sleep", "put"}
    /\ heartbeat_task.must_cancel
    /\ heartbeat_task' = [heartbeat_task EXCEPT !.pc = "cancelled",
                                                !.must_cancel = FALSE]
    /\ UNCHANGED <<now, result, prompt, src_pos, queue, cancelling, task,
                   merged_pc, call_site, exit_kind, outcome, out, pushed,
                   teardowns>>
    /\ UNCHANGED runVars

\* ------------------------------------------------------------------------
\* merged()
\* ------------------------------------------------------------------------
\* first __anext__: both tasks are created, heartbeat first
MergedStart ==
    /\ merged_pc = "start"
    /\ heartbeat_task' = NewTask @@ [wake |-> 0]
    /\ task' = NewTask
    /\ merged_pc' = "loop"
    /\ UNCHANGED <<now, result, prompt, src_pos, queue, cancelling,
                   call_site, exit_kind, outcome, out, pushed, teardowns>>
    /\ UNCHANGED runVars

\* merged() looping with `while True`, never looking at task.done()
MergedLoop_Forever ==
    /\ merged_pc = "loop"
    /\ merged_pc' = "get"
    /\ UNCHANGED <<call_site, exit_kind>>
    /\ UNCHANGED <<now, result, prompt, src_pos, queue, cancelling, task,
                   heartbeat_task, outcome, out, pushed, teardowns>>
    /\ UNCHANGED runVars

\* while not task.done(): ... ; leaving the loop enters the finally clause
MergedLoop ==
    /\ merged_pc = "loop"
    /\ IF done(task)
       THEN /\ merged_pc' = "cancel_tasks"
            /\ call_site' = "finally"
            /\ exit_kind' = "normal"
       ELSE /\ merged_pc' = "get"
            /\ UNCHANGED <<call_site, exit_kind>>
    /\ UNCHANGED <<now, result, prompt, src_pos, queue, cancelling, task,
                   heartbeat_task, outcome, out, pushed, teardowns>>
    /\ UNCHANGED runVars

\* raised, data = await queue.get(); if raised: cancel_tasks(); else yield
MergedGet ==
    /\ merged_pc = "get"
    /\ queue # << >>
    /\ queue' = Tail(queue)
    /\ IF Head(queue)[1]
       THEN /\ merged_pc' = "cancel_tasks"
            /\ call_site' = "handler"
            /\ UNCHANGED out
       ELSE /\ out' = Append(out, Head(queue)[2])
            /\ merged_pc' = IF prompt THEN "loop" ELSE "yield"
            /\ UNCHANGED call_site
    /\ UNCHANGED <<now, result, prompt, src_pos, cancelling, task,
                   heartbeat_task, exit_kind, outcome, pushed, teardowns>>
    /\ UNCHANGED runVars

\* the consumer asks for the next frame: merged() resumes after its yield
MergedResume ==
    /\ merged_pc = "yield"
    /\ merged_pc' = "loop"
    /\ UNCHANGED <<now, result, prompt, src_pos, queue, cancelling, task,
                   heartbeat_task, call_site, exit_kind, outcome, out,
                   pushed, teardowns>>
    /\ UNCHANGED runVars

\* the consumer abandons the output: aclose() throws GeneratorExit at the
\* yield, which enters the finally clause
MergedAbandon ==
    /\ merged_pc = "yield"
    /\ merged_pc' = "cancel_tasks"
    /\ call_site' = "finally"
    /\ exit_kind' = "abandon"
    /\ UNCHANGED <<now, result, prompt, src_pos, queue, cancelling, task,
                   heartbeat_task, outcome, out, pushed, teardowns>>
    /\ UNCHANGED runVars

\* cancel_tasks(): cancelling = True; task.cancel(); await task
CancelTasks ==
    /\ merged_pc = "cancel_tasks"
    /\ cancelling' = TRUE
    /\ task' = cancel(task)
    /\ teardowns' = teardowns + 1
    /\ merged_pc' = "await_task"
    /\ UNCHANGED <<now, result, prompt, src_pos, queue, heartbeat_task,
                   call_site, exit_kind, outcome, out, pushed>>
    /\ UNCHANGED runVars

\* await task returns once the task has settled; suppress() swallows only
\* CancelledError, an exception of drain() leaves cancel_tasks() here
AwaitTask ==
    /\ merged_pc = "await_task"
    /\ Settled(task)
    /\ merged_pc' = IF task.pc = "failed" THEN "raised" ELSE "cancel_heartbeat"
    /\ UNCHANGED <<now, result, prompt, src_pos, queue, cancelling, task,
                   heartbeat_task, call_site, exit_kind, outcome, out,
                   pushed, teardowns>>
    /\ UNCHANGED runVars

\* heartbeat_task.cancel(); await heartbeat_task
CancelHeartbeat ==
    /\ merged_pc = "cancel_heartbeat"
    /\ heartbeat_task' = cancel(heartbeat_task)
    /\ merged_pc' = "await_heartbeat"
    /\ UNCHANGED <<now, result, prompt, src_pos, queue, cancelling, task,
                   call_site, exit_kind, outcome, out, pushed, teardowns>>
    /\ UNCHANGED runVars

AwaitHeartbeat ==
    /\ merged_pc = "await_heartbeat"
    /\ Settled(heartbeat_task)
    /\ merged_pc' = "returned"
    /\ UNCHANGED <<now, result, prompt, src_pos, queue, cancelling, task,
                   heartbeat_task, call_site, exit_kind, outcome, out,
                   pushed, teardowns>>
    /\ UNCHANGED runVars

\* what the consumer sees when the finally clause completes normally
OutcomeOf(kind) ==
    CASE kind = "normal" -> "end"
      [] kind = "abandon" -> "aclosed"
      [] kind = "error" -> "error"
      [] OTHER -> "teardown_error"

\* cancel_tasks() returned: after the handler's call `raise data` enters the
\* finally clause, after the finally clause's call the generator is finished
CancelTasksReturned ==
    /\ merged_pc = "returned"
    /\ IF call_site = "handler"
       THEN /\ merged_pc' = "cancel_tasks"
            /\ call_site' = "finally"
            /\ exit_kind' = "error"
            /\ UNCHANGED outcome
       ELSE /\ merged_pc' = "closed"
            /\ outcome' = OutcomeOf(exit_kind)
            /\ UNCHANGED <<call_site, exit_kind>>
    /\ UNCHANGED <<now, result, prompt, src_pos, queue, cancelling, task,
                   heartbeat_task, out, pushed, teardowns>>
    /\ UNCHANGED runVars

\* cancel_tasks() raised the exception of drain(): out of the handler it
\* enters the finally clause, out of the finally clause it reaches the consumer
CancelTasksRaised ==
    /\ merged_pc = "raised"
    /\ IF call_site = "handler"
       THEN /\ merged_pc' = "cancel_tasks"
            /\ call_site' = "finally"
            /\ exit_kind' = "teardown_error"
            /\ UNCHANGED outcome
       ELSE /\ merged_pc' = "closed"
            /\ outcome' = "teardown_error"
            /\ UNCHANGED <<call_site, exit_kind>>
    /\ UNCHANGED <<now, result, prompt, src_pos, queue, cancelling, task,
                   heartbeat_task, out, pushed, teardowns>>
    /\ UNCHANGED runVars

\* ------------------------------------------------------------------------
\* The event loop's clock
\* ------------------------------------------------------------------------
Deadlines ==
    { d \in 1..MaxTime :
        /\ d > now
        /\ \/ heartbeat_task.pc = "sleep" /\ d = heartbeat_task.wake
           \/ task.pc = "src" /\ d = NextSourceTime }

Min(S) == CHOOSE d \in S : \A e \in S : d <= e

\* with nothing ready to run the loop sleeps until its next timer
Tick ==
    /\ ~MergedRunning
    /\ ~DrainReady /\ ~HeartbeatReady /\ ~MergedReady
    /\ Deadlines # {}
    /\ now' = Min(Deadlines)
    /\ UNCHANGED <<result, prompt, src_pos, queue, cancelling, task,
                   heartbeat_task, merged_pc, call_site, exit_kind, outcome,
                   out, pushed, teardowns>>
    /\ UNCHANGED runVars

\* ------------------------------------------------------------------------
\* Requests and views (inputs of run())
\* ------------------------------------------------------------------------
\* Python's None, among strings
None == "None"

Queries == {"query { a }", "mutation { b }", "subscription { c }"}

\* the operation kind the engine finds in a document
OperationTypeOf(query) ==
    CASE query = "query { a }" -> "query"
      [] query = "mutation { b }" -> "mutation"
      [] OTHER -> "subscription"

QueryMember(q) == <<"query", q>>

VariablesMember == <<"variables", "{x: 1}">>

OperationNameMember == <<"operationName", "Op">>

\* the members of the request's JSON object or query string, in order of
\* appearance (a key may appear twice)
Documents ==
    { << >>,
      <<QueryMember("query { a }")>>,
      <<QueryMember("mutation { b }")>>,
      <<QueryMember("subscription { c }")>>,
      <<QueryMember("query { a }"), VariablesMember>>,
      <<QueryMember("subscription { c }"), VariablesMember,
        OperationNameMember>>,
      <<VariablesMember, OperationNameMember>>,
      <<QueryMember("mutation { b }"), QueryMember("query { a }")>>,
      <<OperationNameMember, QueryMember("mutation { b }")>> }

\* a mime type is the concatenation of these pieces
Mimes ==
    { << >>,
      <<"application/json">>,
      <<"application/json", "+x">>,
      <<"multipart/form-data">>,
      <<"multipart/form-data", "+x">>,
      <<"multipart/mixed">>,
      <<"text/plain">> }

\* the Content-Type header: a mime type with boundary and subscriptionSpec
ContentTypes ==
    [mime : Mimes, boundary : {"graphql", "other"},
     subscriptionspec : {"1.0", "2.0"}]

\* what is wrong with the request's body, if anything
Defects == {"none", "bad_json", "bad_form", "missing_file"}

Requests ==
    [method : {"GET", "POST", "PUT"}, content_type : ContentTypes,
     document : Documents, defect : Defects, ide_requested : BOOLEAN]

Views ==
    [allow_queries_via_get : BOOLEAN, graphql_ide : BOOLEAN,
     streaming : BOOLEAN]

\* ------------------------------------------------------------------------
\* Exceptions and results of the parsers
\* ------------------------------------------------------------------------
NoException == [type |-> "none", status |-> 0, reason |-> ""]

HTTPException(status, reason) ==
    [type |-> "HTTPException", status |-> status, reason |-> reason]

JSONDecodeError == [type |-> "JSONDecodeError", status |-> 0, reason |-> ""]

KeyError == [type |-> "KeyError", status |-> 0, reason |-> ""]

Returned(data) == [exc |-> NoException, data |-> data]

Raising(exc) == [exc |-> exc, data |-> {}]

\* json.loads on an object: a dict, the last member of a key winning
RECURSIVE decode_json(_)
decode_json(doc) ==
    IF doc = << >> THEN {}
    ELSE LET m == doc[Len(doc)]
             before == decode_json(SubSeq(doc, 1, Len(doc) - 1))
         IN  { p \in before : p[1] # m[1] } \cup {m}

\* dict.get(key)
get(data, key) ==
    IF \E p \in data : p[1] = key
    THEN (CHOOSE p \in data : p[1] = key)[2]
    ELSE None

\* BaseView.parse_json
parse_json(req) ==
    IF req.defect = "bad_json" THEN Raising(JSONDecodeError)
    ELSE Returned(decode_json(req.document))

\* BaseView.parse_query_params: the variables parameter is JSON text
parse_query_params(req) ==
    LET params == decode_json(req.document)
    IN  IF get(params, "variables") # None /\ req.defect = "bad_json"
        THEN Raising(JSONDecodeError)
        ELSE Returned(params)

\* parse_multipart
parse_multipart(req) ==
    IF req.defect = "bad_form"
    THEN Raising(HTTPException(400, "Unable to parse the multipart body"))
    ELSE LET operations == parse_json(req)
         IN  IF operations.exc # NoException THEN operations
             ELSE IF req.defect = "missing_file"
             THEN Raising(HTTPException(400, "File(s) missing in form data"))
             ELSE operations

\* parse_multipart_subscriptions
parse_multipart_subscriptions(req) ==
    IF req.method = "GET" THEN parse_query_params(req) ELSE parse_json(req)

\* parse_content_type: (mime, params)
parse_content_type(header) ==
    <<header.mime,
      [boundary |-> header.boundary,
       subscriptionspec |-> header.subscriptionspec]>>

\* BaseView._is_multipart_subscriptions
is_multipart_subscriptions(content_type, params) ==
    /\ content_type = <<"multipart/mixed">>
    /\ params.boundary = "graphql"
    /\ params.subscriptionspec = "1.0"

\* "application/json" in content_type
Contains(content_type, piece) ==
    \E i \in DOMAIN content_type : content_type[i] = piece

\* parse_http_body comparing the mime type with application/json for equality
Strategy_ExactJson(req) ==
    LET ct == parse_content_type(req.content_type)
    IN  IF req.method = "GET" THEN "query-string"
        ELSE IF ct[1] = <<"application/json">> THEN "json"
        ELSE IF ct[1] = <<"multipart/form-data">> THEN "multipart-form"
        ELSE IF is_multipart_subscriptions(ct[1], ct[2])
        THEN "multipart-subscription"
        ELSE "unsupported"

\* the branch parse_http_body takes
Strategy(req) ==
    LET ct == parse_content_type(req.content_type)
    IN  IF req.method = "GET" THEN "query-string"
        ELSE IF Contains(ct[1], "application/json") THEN "json"
        ELSE IF ct[1] = <<"multipart/form-data">> THEN "multipart-form"
        ELSE IF is_multipart_subscriptions(ct[1], ct[2])
        THEN "multipart-subscription"
        ELSE "unsupported"

\* parse_http_body leaving the protocol of a GET request alone
ProtocolOf_IgnoresGet(req) ==
    IF req.method # "GET" /\ Strategy(req) = "multipart-subscription"
    THEN "multipart-subscription"
    ELSE "http"

\* the protocol parse_http_body ends with
ProtocolOf(req) ==
    LET ct == parse_content_type(req.content_type)
    IN  IF req.method = "GET"
        THEN IF is_multipart_subscriptions(ct[1], ct[2])
             THEN "multipart-subscription" ELSE "http"
        ELSE IF Strategy(req) = "multipart-subscription"
        THEN "multipart-subscription"
        ELSE "http"

NoRequestData ==
    [query |-> "unset", variables |-> "unset", operation_name |-> "unset",
     protocol |-> "unset"]

\* parse_http_body reading the query with data["query"]
parse_http_body_QueryRequired(req) ==
    LET s == Strategy(req)
        parsed ==
            CASE s = "query-string" -> parse_query_params(req)
              [] s = "json" -> parse_json(req)
              [] s = "multipart-form" -> parse_multipart(req)
              [] s = "multipart-subscription" ->
                     parse_multipart_subscriptions(req)
              [] OTHER ->
                     Raising(HTTPException(400, "Unsupported content type"))
        exc == IF parsed.exc = NoException /\ get(parsed.data, "query") = None
               THEN KeyError ELSE parsed.exc
    IN  [exc |-> exc,
         request_data |->
             IF exc # NoException THEN NoRequestData
             ELSE [query |-> get(parsed.data, "query"),
                   variables |-> get(parsed.data, "variables"),
                   operation_name |-> get(parsed.data, "operationName"),
                   protocol |-> ProtocolOf(req)]]

\* parse_http_body: the exception raised, or the GraphQLRequestData built
parse_http_body(req) ==
    LET s == Strategy(req)
        parsed ==
            CASE s = "query-string" -> parse_query_params(req)
              [] s = "json" -> parse_json(req)
              [] s = "multipart-form" -> parse_multipart(req)
              [] s = "multipart-subscription" ->
                     parse_multipart_subscriptions(req)
              [] OTHER ->
                     Raising(HTTPException(400, "Unsupported content type"))
    IN  [exc |-> parsed.exc,
         request_data |->
             IF parsed.exc # NoException THEN NoRequestData
             ELSE [query |-> get(parsed.data, "query"),
                   variables |-> get(parsed.data, "variables"),
                   operation_name |-> get(parsed.data, "operationName"),
                   protocol |-> ProtocolOf(req)]]

\* execute_operation without its except clauses
ExceptParse_Uncaught(exc) == exc

\* the except clauses of execute_operation around parse_http_body
ExceptParse(exc) ==
    CASE exc.type = "JSONDecodeError" ->
             HTTPException(400, "Unable to parse request body as JSON")
      [] exc.type = "KeyError" ->
             HTTPException(400, "File(s) missing in form data")
      [] OTHER -> exc

\* OperationType.from_http
from_http(method) ==
    IF method = "GET" THEN {"query"}
    ELSE {"query", "mutation", "subscription"}

\* execute_operation removing QUERY whatever the method
AllowedOperationTypes_AnyMethod(method, allow_queries_via_get) ==
    IF ~allow_queries_via_get
    THEN from_http(method) \ {"query"}
    ELSE from_http(method)

\* allowed_operation_types as execute_operation computes it
AllowedOperationTypes(method, allow_queries_via_get) ==
    IF ~allow_queries_via_get /\ method = "GET"
    THEN from_http(method) \ {"query"}
    ELSE from_http(method)

\* schema.execute: raises on a missing query or a disallowed operation
\* kind, else gives an ExecutionResult with or without errors
execute(query, allowed) ==
    IF query = None THEN {"MissingQueryError"}
    ELSE IF OperationTypeOf(query) \notin allowed
    THEN {"InvalidOperationTypeError"}
    ELSE {"ExecutionResult", "ExecutionResult(errors)"}

\* schema.subscribe: it is given no allowed operation kinds
subscribe(query) ==
    IF query = None THEN {"MissingQueryError"}
    ELSE {"SubscriptionExecutionResult", "ExecutionResult(errors)"}

\* the except clauses of run() around execute_operation
ExceptExecute(raised) ==
    IF raised = "InvalidOperationTypeError"
    THEN HTTPException(400, "operation type not allowed for the method")
    ELSE HTTPException(400, "No GraphQL query found in the request")

\* BaseView.is_request_allowed
is_request_allowed(req) == req.method \in {"GET", "POST"}

\* BaseView.should_render_graphql_ide
should_render_graphql_ide(req) == req.ide_requested

NoResponse == [kind |-> "none", status |-> 0, reason |-> ""]

\* run() raised: an HTTPException carries its status to the host framework
ErrorResponse(exc) ==
    [kind |-> IF exc.type = "HTTPException" THEN "http-error"
              ELSE "exception",
     status |-> exc.status, reason |-> exc.reason]

\* ------------------------------------------------------------------------
\* run()
\* ------------------------------------------------------------------------
RunInit ==
    /\ request \in Requests
    /\ view \in Views
    /\ run_pc = "run"
    /\ request_data = NoRequestData
    /\ allowed_operation_types = {}
    /\ engine = "none"
    /\ parsers = << >>
    /\ calls = << >>
    /\ response = NoResponse

\* if not self.is_request_allowed(request_adapter): raise HTTPException(405)
RunCheckMethod ==
    /\ run_pc = "run"
    /\ IF is_request_allowed(request)
       THEN /\ run_pc' = "ide"
            /\ UNCHANGED response
       ELSE /\ run_pc' = "done"
            /\ response' =
                   ErrorResponse(HTTPException(
                       405, "GraphQL only supports GET and POST requests."))
    /\ UNCHANGED <<request, view, request_data, allowed_operation_types,
                   engine, parsers, calls>>
    /\ UNCHANGED streamVars

\* the IDE branch, else sub-response, context and root value are fetched
RunIde ==
    /\ run_pc = "ide"
    /\ IF should_render_graphql_ide(request)
       THEN /\ run_pc' = "done"
            /\ IF view.graphql_ide
               THEN /\ calls' = Append(calls, "render_graphql_ide")
                    /\ response' = [kind |-> "ide", status |-> 200,
                                    reason |-> ""]
               ELSE /\ response' = ErrorResponse(HTTPException(404, "Not Found"))
                    /\ UNCHANGED calls
       ELSE /\ run_pc' = "parse"
            /\ calls' = calls \o <<"get_sub_response", "get_context",
                                   "get_root_value">>
            /\ UNCHANGED response
    /\ UNCHANGED <<request, view, request_data, allowed_operation_types,
                   engine, parsers>>
    /\ UNCHANGED streamVars

\* execute_operation, up to the end of its try statement
RunParse ==
    /\ run_pc = "parse"
    /\ LET parsed == parse_http_body(request)
       IN  /\ parsers' = IF Strategy(request) = "unsupported" THEN parsers
                         ELSE Append(parsers, Strategy(request))
           /\ IF parsed.exc = NoException
              THEN /\ request_data' = parsed.request_data
                   /\ run_pc' = "gate"
                   /\ UNCHANGED response
              ELSE /\ response' = ErrorResponse(ExceptParse(parsed.exc))
                   /\ run_pc' = "done"
                   /\ UNCHANGED request_data
    /\ UNCHANGED <<request, view, allowed_operation_types, engine, calls>>
    /\ UNCHANGED streamVars

\* execute_operation: allowed_operation_types
RunGate ==
    /\ run_pc = "gate"
    /\ allowed_operation_types' =
           AllowedOperationTypes(request.method, view.allow_queries_via_get)
    /\ run_pc' = "dispatch"
    /\ UNCHANGED <<request, view, request_data, engine, parsers, calls,
                   response>>
    /\ UNCHANGED streamVars

\* the engine call execute_operation makes for the protocol
EngineCall(data) ==
    IF data.protocol = "multipart-subscription" THEN "subscribe"
    ELSE "execute"

\* execute_operation: subscribe or execute; run(): its except clauses
RunDispatch ==
    /\ run_pc = "dispatch"
    /\ calls' = Append(calls, EngineCall(request_data))
    /\ \E o \in IF EngineCall(request_data) = "subscribe"
                THEN subscribe(request_data.query)
                ELSE execute(request_data.query, allowed_operation_types) :
           /\ engine' = o
           /\ IF o \in {"InvalidOperationTypeError", "MissingQueryError"}
              THEN /\ response' = ErrorResponse(ExceptExecute(o))
                   /\ run_pc' = "done"
              ELSE /\ run_pc' = "respond"
                   /\ UNCHANGED response
    /\ UNCHANGED <<request, view, request_data, allowed_operation_types,
                   parsers>>
    /\ UNCHANGED streamVars

\* run() calling _handle_errors without looking at result.errors
RunRespond_HookAlways ==
    /\ run_pc = "respond"
    /\ run_pc' = "done"
    /\ IF engine = "SubscriptionExecutionResult"
       THEN /\ calls' = calls \o <<"_get_stream", "create_streaming_response">>
            /\ response' =
                   IF view.streaming
                   THEN [kind |-> "stream", status |-> 200,
                         reason |-> "multipart/mixed;boundary=graphql;subscriptionSpec=1.0,application/json"]
                   ELSE [kind |-> "exception", status |-> 0,
                         reason |-> "Multipart responses are not supported"]
       ELSE /\ calls' = calls \o <<"process_result", "_handle_errors",
                                   "create_response">>
            /\ response' = [kind |-> "json", status |-> 200, reason |-> ""]
    /\ UNCHANGED <<request, view, request_data, allowed_operation_types,
                   engine, parsers>>
    /\ UNCHANGED streamVars

\* run(): a streaming response for a subscription result, else
\* process_result, _handle_errors when there are errors, create_response
RunRespond ==
    /\ run_pc = "respond"
    /\ run_pc' = "done"
    /\ IF engine = "SubscriptionExecutionResult"
       THEN /\ calls' = calls \o <<"_get_stream", "create_streaming_response">>
            /\ response' =
                   IF view.streaming
                   THEN [kind |-> "stream", status |-> 200,
                         reason |-> "multipart/mixed;boundary=graphql;subscriptionSpec=1.0,application/json"]
                   ELSE [kind |-> "exception", status |-> 0,
                         reason |-> "Multipart responses are not supported"]
       ELSE /\ calls' = calls \o <<"process_result">>
                        \o (IF engine = "ExecutionResult(errors)"
                            THEN <<"_handle_errors">> ELSE << >>)
                        \o <<"create_response">>
            /\ response' = [kind |-> "json", status |-> 200, reason |-> ""]
    /\ UNCHANGED <<request, view, request_data, allowed_operation_types,
                   engine, parsers>>
    /\ UNCHANGED streamVars

\* ------------------------------------------------------------------------
\* The two specifications
\* ------------------------------------------------------------------------
\* no request is being served
RunIdle ==
    /\ request = [method |-> "POST",
                  content_type |-> [mime |-> << >>, boundary |-> "graphql",
                                    subscriptionspec |-> "1.0"],
                  document |-> << >>, defect |-> "none",
                  ide_requested |-> FALSE]
    /\ view = [allow_queries_via_get |-> TRUE, graphql_ide |-> FALSE,
               streaming |-> TRUE]
    /\ run_pc = "idle"
    /\ request_data = NoRequestData
    /\ allowed_operation_types = {}
    /\ engine = "none"
    /\ parsers = << >>
    /\ calls = << >>
    /\ response = NoResponse

\* no response is being streamed
StreamIdle ==
    /\ now = 0
    /\ result = [times |-> << >>, end_at |-> 1, ending |-> "exhausted",
                 on_cancel |-> "propagate"]
    /\ prompt = TRUE
    /\ src_pos = 0
    /\ queue = << >>
    /\ cancelling = FALSE
    /\ task = NoTask
    /\ heartbeat_task = NoTask @@ [wake |-> 0]
    /\ merged_pc = "idle"
    /\ call_site = "none"
    /\ exit_kind = "none"
    /\ outcome = "open"
    /\ out = << >>
    /\ pushed = << >>
    /\ teardowns = 0

Init == StreamInit /\ RunIdle

InitRun == StreamIdle /\ RunInit

vars == <<streamVars, runVars>>

Next ==
    \/ DrainStart
    \/ DrainNext
    \/ DrainExhausted
    \/ DrainRaises
    \/ DrainPut
    \/ DrainCancelled
    \/ HeartbeatBeat
    \/ HeartbeatPut
    \/ HeartbeatCancelled
    \/ MergedStart
    \/ MergedLoop
    \/ MergedGet
    \/ MergedResume
    \/ MergedAbandon
    \/ CancelTasks
    \/ AwaitTask
    \/ CancelHeartbeat
    \/ AwaitHeartbeat
    \/ CancelTasksReturned
    \/ CancelTasksRaised
    \/ Tick

Spec == Init /\ [][Next]_vars

NextRun ==
    \/ RunCheckMethod
    \/ RunIde
    \/ RunParse
    \/ RunGate
    \/ RunDispatch
    \/ RunRespond

SpecRun == InitRun /\ [][NextRun]_vars

\* ------------------------------------------------------------------------
\* The multiplexer read by a consumer that keeps reading, on a fair event loop
\* ------------------------------------------------------------------------
\* the steps of the drain task while nothing cancels it
DrainStep ==
    \/ DrainStart
    \/ DrainNext
    \/ DrainExhausted
    \/ DrainRaises
    \/ DrainPut

HeartbeatStep ==
    \/ HeartbeatBeat
    \/ HeartbeatPut
    \/ HeartbeatCancelled

\* the steps of merged() and of its consumer, which asks for the next frame
\* after every frame it was given
MergedStep ==
    \/ MergedStart
    \/ MergedLoop
    \/ MergedGet
    \/ MergedResume
    \/ CancelTasks
    \/ AwaitTask
    \/ CancelHeartbeat
    \/ AwaitHeartbeat
    \/ CancelTasksReturned

NextLive ==
    \/ DrainStep
    \/ HeartbeatStep
    \/ MergedStep
    \/ Tick

\* the event loop runs every task that is ready and fires every timer that
\* is due; the consumer resumes merged()
Fairness ==
    /\ WF_vars(DrainStep)
    /\ WF_vars(HeartbeatStep)
    /\ WF_vars(MergedStep)
    /\ WF_vars(Tick)

\* the source's reaction to a cancellation plays no part: with a consumer
\* that keeps reading, the drain task has ended before the teardown starts
InitLive == Init /\ result.on_cancel = "propagate"

SpecLive == InitLive /\ [][NextLive]_vars /\ Fairness

\* ------------------------------------------------------------------------
\* Properties of the multiplexer (checked under Spec)
\* ------------------------------------------------------------------------
IsPrefix(s, t) == Len(s) <= Len(t) /\ SubSeq(t, 1, Len(s)) = s

Occurrences(s, x) == Cardinality({ i \in DOMAIN s : s[i] = x })

\* merged() has finished and its consumer read it to the end
ReadToEnd == merged_pc = "closed" /\ exit_kind # "abandon"

\* C1: when the source is exhausted without error and the consumer reads the
\* output to its end, the closing boundary frame is in the output exactly
\* once and is the last frame yielded.
C1_ClosingFrameLast ==
    (ReadToEnd /\ outcome = "end" /\ result.ending = "exhausted")
        => /\ out # << >>
           /\ Last(out) = ClosingFrame
           /\ Occurrences(out, ClosingFrame) = 1

\* the scenario of C2: results at 1 s, 2 s and 8 s, the source exhausted
\* right after the third, a consumer that reads without delay
C2_Scenario ==
    /\ result.times = <<1, 2, 8>>
    /\ result.end_at = 8
    /\ result.ending = "exhausted"
    /\ prompt

C2_ClaimedOrder ==
    <<PayloadFrame(1), PayloadFrame(2), HeartbeatFrame, PayloadFrame(3),
      ClosingFrame>>

C2_ObservedOrder == <<HeartbeatFrame>> \o C2_ClaimedOrder

\* C2 as stated: in the scenario the output is exactly item1, item2,
\* heartbeat, item3, closing frame, and no heartbeat precedes item1.
C2_ItemsBeforeHeartbeat ==
    C2_Scenario
        => /\ IsPrefix(out, C2_ClaimedOrder)
           /\ merged_pc = "closed" => out = C2_ClaimedOrder

\* C2 as amended: in the scenario the output is exactly heartbeat (pushed
\* when the heartbeat task starts, at 0 s), item1, item2, heartbeat (at
\* 5 s), item3, closing frame; the output ends normally.
C2_HeartbeatFirst ==
    C2_Scenario
        => /\ IsPrefix(out, C2_ObservedOrder)
           /\ merged_pc = "closed"
                  => out = C2_ObservedOrder /\ outcome = "end" /\ now = 8

C2_ScenarioFinished ==
    C2_Scenario /\ merged_pc = "closed" /\ Len(out) = 6

\* C3: if drain() catches an exception of the source while cancelling is
\* false and the consumer keeps reading, the consumer receives that
\* exception, after both tasks have settled; the output never ends without
\* the error.
C3_ErrorReachesConsumer ==
    (ReadToEnd /\ \E i \in DOMAIN pushed : pushed[i] = <<TRUE, SourceError>>)
        => /\ outcome = "error"
           /\ Settled(task)
           /\ Settled(heartbeat_task)

\* C5: if the consumer abandons the output after the first frame, both
\* the drain task and the heartbeat task have stopped when the teardown
\* is over (so that nothing is put into the queue afterwards).
C5_AbandonStopsProducers ==
    (merged_pc = "closed" /\ exit_kind = "abandon" /\ Len(out) = 1)
        => Settled(task) /\ Settled(heartbeat_task)

\* a producer is suspended inside queue.put
Blocked(t) == t.pc = "put"

\* C6: the queue never holds more than one item; an item is put only into
\* the empty queue; a queued item leaves the queue only by the consumer's
\* get, unchanged (never dropped, never overwritten); while the queue is
\* full a producer blocked in put stays there with its item, and it leaves
\* put only by putting that item into the queue the consumer has emptied
\* (the teardown's cancellation ends a blocked producer without a put).
C6_SingleSlotBackpressure ==
    [][ /\ Len(queue) <= 1 /\ Len(queue') <= 1
        /\ pushed' # pushed
               => /\ queue = << >>
                  /\ Len(queue') = 1
                  /\ pushed' = Append(pushed, queue'[1])
        /\ (queue # << >> /\ queue' # queue)
               => /\ merged_pc = "get"
                  /\ queue' = << >>
                  /\ \/ out' = Append(out, queue[1][2])
                     \/ queue[1][1] /\ merged_pc' = "cancel_tasks"
        /\ (Blocked(task) /\ queue # << >>)
               => \/ Blocked(task') /\ task'.pending = task.pending
                  \/ task'.pc = "cancelled" /\ pushed' = pushed
        /\ (Blocked(task) /\ task'.pc \notin {"put", "cancelled"})
               => queue = << >> /\ queue' = <<task.pending>>
        /\ (Blocked(heartbeat_task) /\ queue # << >>)
               => \/ Blocked(heartbeat_task')
                  \/ heartbeat_task'.pc = "cancelled" /\ pushed' = pushed
        /\ (Blocked(heartbeat_task)
            /\ heartbeat_task'.pc \notin {"put", "cancelled"})
               => queue = << >> /\ queue' = <<<<FALSE, HeartbeatFrame>>>>
      ]_vars

C6_BothProducersBlocked ==
    /\ Blocked(task) /\ Blocked(heartbeat_task)
    /\ Len(queue) = 1
    /\ merged_pc = "yield"

\* the data of the items of s that are not error items
RECURSIVE Frames(_)
Frames(s) ==
    IF s = << >> THEN << >>
    ELSE IF Head(s)[1] THEN Frames(Tail(s))
    ELSE <<Head(s)[2]>> \o Frames(Tail(s))

\* the items merged() has taken out of the queue so far
Taken == SubSeq(pushed, 1, Len(pushed) - Len(queue))

\* C11: frames are yielded in the order they were pushed, heartbeat and
\* result frames alike: the queue holds the latest pushes in push order, and
\* the output is exactly the frames (error items aside) of the pushes that
\* were taken out of it, in push order.
C11_OutputInPushOrder ==
    /\ Len(queue) <= Len(pushed)
    /\ queue = SubSeq(pushed, Len(pushed) - Len(queue) + 1, Len(pushed))
    /\ out = Frames(Taken)

C11_HeartbeatBetweenResults ==
    /\ Len(out) >= 4
    /\ \E i, j, k \in DOMAIN out :
           /\ i < j /\ j < k
           /\ out[i] = PayloadFrame(1)
           /\ out[j] = HeartbeatFrame
           /\ out[k] = PayloadFrame(2)

\* a call of cancel_tasks() is over: it returned or it raised
TeardownOver == teardowns > 0 /\ merged_pc \in {"returned", "raised", "closed"}

\* C13: when a call of cancel_tasks() is over, the heartbeat task has been
\* cancelled and has settled, however the drain task settled (completed,
\* cancelled, or failed with the exception it re-raised because cancelling
\* was set): the heartbeat is not left running after drain() has stopped.
C13_HeartbeatStoppedByTeardown ==
    TeardownOver => Settled(task) /\ Settled(heartbeat_task)

\* C14: once merged() has finished, cancel_tasks() has been executed exactly
\* once, on every exit path: drain() completed, the consumer abandoned the
\* output, or an error item was read from the queue.
C14_TeardownOnce ==
    merged_pc = "closed" => teardowns = 1

\* the exits on which cancel_tasks() does run once
C14_OnceUnlessErrorItem ==
    merged_pc = "closed"
        => teardowns = IF exit_kind \in {"normal", "abandon"} THEN 1 ELSE 2

\* C15: no frame, heartbeat or payload, is yielded after the closing
\* boundary frame: wherever the closing frame is in the output it is the
\* last frame of it, in every interleaving of the two producers.
C15_NothingAfterClosingFrame ==
    \A i \in DOMAIN out : out[i] = ClosingFrame => i = Len(out)

\* a heartbeat was put into the queue after the closing frame was taken out
\* of it, and merged() finished without yielding it
C15_HeartbeatLeftInQueue ==
    /\ merged_pc = "closed"
    /\ out # << >> /\ Last(out) = ClosingFrame
    /\ queue = <<<<FALSE, HeartbeatFrame>>>>
    /\ Last(pushed) = <<FALSE, HeartbeatFrame>>

\* cancellation of t has been requested
CancelRequested(t) == t.must_cancel \/ t.pc = "cancelled"

\* C16: the teardown is ordered.  Cancellation of the drain task is never
\* requested with the cancelling flag unset; cancellation of the heartbeat
\* task is requested only once the drain task has settled (and the flag is
\* set); the flag is never unset again; and once it is set drain() puts no
\* error item into the queue.
C16_TeardownOrder ==
    [][ /\ CancelRequested(task') => cancelling'
        /\ (CancelRequested(heartbeat_task')
            /\ ~CancelRequested(heartbeat_task))
               => Settled(task) /\ cancelling
        /\ cancelling => cancelling'
        /\ (cancelling /\ pushed' # pushed) => ~Last(pushed')[1]
      ]_vars

\* drain() caught an exception of the source while cancelling was set, and
\* re-raised it instead of putting an error item
C16_ErrorNotPushedWhileCancelling ==
    /\ cancelling
    /\ task.pc = "failed"
    /\ \A i \in DOMAIN pushed : ~pushed[i][1]

\* C17: the source being finite and the consumer reading on, the output
\* eventually ends and the teardown completes, with both tasks settled:
\* merged() does not wait forever on the empty queue once drain() has
\* finished, and the teardown does not wait forever for a producer blocked
\* in put on the full queue.
C17_OutputTerminates ==
    <>(merged_pc = "closed" /\ Settled(task) /\ Settled(heartbeat_task))

\* the teardown waits for the heartbeat task, which is blocked in put
C17_TeardownWaitsForBlockedProducer ==
    /\ merged_pc = "await_heartbeat"
    /\ Blocked(heartbeat_task)
    /\ heartbeat_task.must_cancel
    /\ full(queue)

\* the drain task is cancelled before it has ended only when the consumer
\* abandons the output
DrainCancelledOnlyOnAbandon ==
    (task.must_cancel \/ task.pc \in {"cancelled", "failed"})
        => exit_kind = "abandon"

\* number of heartbeat frames in s
Beats(s) == Occurrences(s, HeartbeatFrame)

\* the heartbeat task is running
HeartbeatAlive == heartbeat_task.pc \in {"new", "sleep", "put"}

\* the instant at which the heartbeat task wants to put its next frame
HeartbeatDue ==
    IF heartbeat_task.pc = "sleep" THEN heartbeat_task.wake ELSE now

\* drain() is waiting for the source, which stays silent until after the
\* next heartbeat is due, and the consumer reads without delay
Quiet ==
    /\ prompt
    /\ task.pc = "src"
    /\ HeartbeatAlive
    /\ HeartbeatDue < NextSourceTime

\* the heartbeat frame put at the present instant is the last frame yielded
BeatYielded ==
    /\ out # << >> /\ Last(out) = HeartbeatFrame
    /\ heartbeat_task.pc = "sleep"
    /\ heartbeat_task.wake = now + HeartbeatSleep

C18_BlockedWhileQuiet == Quiet /\ Blocked(heartbeat_task)

\* a frame stream() made of a result
IsPayload(frame) == frame \notin {HeartbeatFrame, ClosingFrame}

\* the payload frames of s, in order
Payloads(s) == SelectSeq(s, IsPayload)

\* C20: when the consumer has read the output to its end, the payload
\* frames yielded are exactly the payload frames drain() put into the queue,
\* each once and in source order: the frames of results 1, 2, ... up to the
\* last result of the source, none dropped and none duplicated.
C20_PayloadsExactlyOnce ==
    ReadToEnd
        => /\ Payloads(out) = Payloads(Frames(pushed))
           /\ Payloads(out) = [i \in 1..Len(result.times) |-> PayloadFrame(i)]

\* the output ended behind the back of a slow consumer, without the closing
\* frame, and its three payload frames were all yielded
C20_PayloadsKeptWhenClosingLost ==
    /\ ReadToEnd
    /\ ~prompt
    /\ result.ending = "exhausted"
    /\ \A i \in DOMAIN out : out[i] # ClosingFrame
    /\ Payloads(out) = <<PayloadFrame(1), PayloadFrame(2), PayloadFrame(3)>>
    /\ Beats(out) >= 1

\* ------------------------------------------------------------------------
\* Properties of run() (checked under SpecRun)
\* ------------------------------------------------------------------------
RequestMime == parse_content_type(request.content_type)[1]

RequestMarker ==
    is_multipart_subscriptions(parse_content_type(request.content_type)[1],
                               parse_content_type(request.content_type)[2])

EngineCalls == { i \in DOMAIN calls : calls[i] \in {"execute", "subscribe"} }

\* run() went past the method check and the IDE branch
ReachedParse ==
    \/ run_pc \in {"gate", "dispatch", "respond"}
    \/ /\ run_pc = "done"
       /\ is_request_allowed(request)
       /\ ~should_render_graphql_ide(request)

Rejected(status) == response.kind = "http-error" /\ response.status = status

\* C4: a GET request with allow_queries_via_get false that reaches the
\* engine with a query operation is rejected with invalid-operation-type,
\* which run() answers with HTTP 400, whatever the content-type.
C4_GetQueryRejected ==
    ( /\ run_pc = "done"
      /\ request.method = "GET"
      /\ ~view.allow_queries_via_get
      /\ engine # "none"
      /\ request_data.query # None
      /\ OperationTypeOf(request_data.query) = "query" )
        => engine = "InvalidOperationTypeError" /\ Rejected(400)

\* C7: allowed_operation_types depends on the method and the flag only:
\* all three kinds for POST whatever the flag, {query} for GET with the
\* flag true, the empty set for GET with the flag false.
C7_OperationGate ==
    (run_pc \in {"dispatch", "respond"} \/ (run_pc = "done" /\ engine # "none"))
        => /\ request.method = "POST"
               => allowed_operation_types =
                      {"query", "mutation", "subscription"}
           /\ (request.method = "GET" /\ view.allow_queries_via_get)
               => allowed_operation_types = {"query"}
           /\ (request.method = "GET" /\ ~view.allow_queries_via_get)
               => allowed_operation_types = {}

C7_GetGateClosed ==
    /\ run_pc = "dispatch"
    /\ request.method = "GET"
    /\ ~view.allow_queries_via_get
    /\ allowed_operation_types = {}

\* the request's JSON text is decoded and does not decode
C8_MalformedJson ==
    /\ request.defect = "bad_json"
    /\ \/ request.method = "POST" /\ Contains(RequestMime, "application/json")
       \/ request.method = "POST" /\ RequestMime = <<"multipart/mixed">>
              /\ RequestMarker
       \/ request.method = "GET"
              /\ get(decode_json(request.document), "variables") # None

C8_MissingUpload ==
    /\ request.defect = "missing_file"
    /\ request.method = "POST"
    /\ RequestMime = <<"multipart/form-data">>

C8_UnsupportedContentType ==
    /\ request.method = "POST"
    /\ ~Contains(RequestMime, "application/json")
    /\ RequestMime # <<"multipart/form-data">>
    /\ ~RequestMarker

\* C8: once run() is over, a method other than GET and POST gave 405 with
\* nothing else done; an IDE request with the IDE disabled gave 404;
\* malformed JSON, a missing upload, an unsupported content-type, an
\* operation kind refused by the engine and a missing query gave 400; a
\* failure carries no successful response, and after a failure of the
\* parsing the engine was not called.
C8_TransportFailures ==
    run_pc = "done"
        => /\ ~is_request_allowed(request)
               => Rejected(405) /\ calls = << >> /\ parsers = << >>
                  /\ engine = "none"
           /\ ( /\ is_request_allowed(request)
                /\ should_render_graphql_ide(request)
                /\ ~view.graphql_ide )
               => Rejected(404) /\ parsers = << >> /\ engine = "none"
           /\ (ReachedParse /\ (C8_MalformedJson \/ C8_MissingUpload
                                \/ C8_UnsupportedContentType))
               => Rejected(400) /\ EngineCalls = {}
                  /\ request_data = NoRequestData
           /\ engine \in {"InvalidOperationTypeError", "MissingQueryError"}
               => Rejected(400)
           /\ (ReachedParse /\ request_data # NoRequestData
               /\ request_data.query = None)
               => Rejected(400) /\ engine = "MissingQueryError"
           /\ response.kind = "http-error"
               => /\ response.status \in {400, 404, 405}
                  /\ \A i \in DOMAIN calls :
                         calls[i] \notin {"create_response",
                                          "create_streaming_response",
                                          "render_graphql_ide"}
           /\ (ReachedParse /\ request_data = NoRequestData)
               => Rejected(400) /\ EngineCalls = {} /\ engine = "none"

C8_MalformedJsonRejected ==
    /\ run_pc = "done"
    /\ ReachedParse
    /\ C8_MalformedJson
    /\ Rejected(400)

\* C9: past the parsing, exactly one strategy was entered, the one the
\* method and the content-type select: query string for GET; for POST, JSON
\* when the mime type contains application/json, multipart form when it is
\* multipart/form-data, multipart subscription when it carries the marker;
\* any other POST entered none and was answered 400.  Before the parsing no
\* strategy has been entered.
C9_OneStrategy ==
    /\ ~ReachedParse => parsers = << >>
    /\ ReachedParse
           => /\ Len(parsers) <= 1
              /\ request.method = "GET" => parsers = <<"query-string">>
              /\ ( /\ request.method = "POST"
                   /\ Contains(RequestMime, "application/json") )
                     => parsers = <<"json">>
              /\ ( /\ request.method = "POST"
                   /\ RequestMime = <<"multipart/form-data">> )
                     => parsers = <<"multipart-form">>
              /\ (request.method = "POST" /\ RequestMarker)
                     => parsers = <<"multipart-subscription">>
              /\ C8_UnsupportedContentType
                     => /\ parsers = << >>
                        /\ run_pc = "done"
                        /\ Rejected(400)
                        /\ response.reason = "Unsupported content type"

C9_SubscriptionParse ==
    /\ run_pc = "gate"
    /\ request.method = "POST"
    /\ RequestMarker
    /\ parsers = <<"multipart-subscription">>

\* C10: the parsed request's protocol is multipart-subscription exactly
\* when the content-type carries the subscription marker (for GET, and for
\* POST that is neither JSON nor form data); the engine is not called
\* before the dispatch, and past it it was called exactly once: subscribe
\* when the protocol is multipart-subscription, execute otherwise.
C10_ProtocolSelectsEngine ==
    /\ request_data # NoRequestData
           => (request_data.protocol = "multipart-subscription"
                  <=> /\ RequestMarker
                      /\ \/ request.method = "GET"
                         \/ /\ request.method = "POST"
                            /\ ~Contains(RequestMime, "application/json")
                            /\ RequestMime # <<"multipart/form-data">>)
    /\ run_pc \in {"run", "ide", "parse", "gate", "dispatch"}
           => EngineCalls = {}
    /\ (run_pc \in {"respond", "done"} /\ request_data # NoRequestData)
           => /\ Cardinality(EngineCalls) = 1
              /\ \A i \in EngineCalls :
                     calls[i] = IF request_data.protocol =
                                       "multipart-subscription"
                                THEN "subscribe" ELSE "execute"

C10_GetSubscription ==
    /\ run_pc = "done"
    /\ request.method = "GET"
    /\ request_data.protocol = "multipart-subscription"
    /\ \E i \in DOMAIN calls : calls[i] = "subscribe"
    /\ response.kind = "stream"

\* the value of the last member of doc named key, None without one
Field(doc, key) ==
    LET I == { i \in DOMAIN doc : doc[i][1] = key }
    IN  IF I = {} THEN None
        ELSE doc[CHOOSE i \in I : \A j \in I : j <= i][2]

\* the request is a POST, its mime type contains application/json and its
\* body is a JSON object
C12_JsonPost ==
    /\ request.method = "POST"
    /\ Contains(RequestMime, "application/json")
    /\ request.defect # "bad_json"

\* C12: for a POST whose mime type contains application/json and whose body
\* is a valid JSON object the parsing succeeds; query, variables and
\* operationName of the parsed request are the JSON members of those names,
\* null for an absent member (query included), and the protocol is http.
C12_JsonPostFields ==
    (C12_JsonPost /\ ReachedParse)
        => /\ request_data # NoRequestData
           /\ request_data.query = Field(request.document, "query")
           /\ request_data.variables = Field(request.document, "variables")
           /\ request_data.operation_name =
                  Field(request.document, "operationName")
           /\ request_data.protocol = "http"
           /\ parsers = <<"json">>

C12_QueryAbsent ==
    /\ run_pc = "gate"
    /\ C12_JsonPost
    /\ RequestMime = <<"application/json", "+x">>
    /\ request.document = <<VariablesMember, OperationNameMember>>
    /\ request_data.query = None
    /\ request_data.variables = "{x: 1}"

\* the positions of `name` among the calls of run()
CallsOf(name) == { i \in DOMAIN calls : calls[i] = name }

\* C19: _handle_errors is called at most once, and it is called exactly
\* when run() answered a single result whose errors are not empty, right
\* after process_result and right before create_response; a single result
\* without errors goes from process_result to create_response directly; the
\* hook is not called for a subscription result nor when run() raised an
\* HTTP error.
C19_ErrorHook ==
    /\ Cardinality(CallsOf("_handle_errors")) <= 1
    /\ CallsOf("_handle_errors") # {}
           <=> (run_pc = "done" /\ engine = "ExecutionResult(errors)")
    /\ \A i \in CallsOf("_handle_errors") :
           /\ i > 1 /\ calls[i - 1] = "process_result"
           /\ i < Len(calls) /\ calls[i + 1] = "create_response"
           /\ Cardinality(CallsOf("process_result")) = 1
           /\ Cardinality(CallsOf("create_response")) = 1
    /\ (run_pc = "done" /\ engine = "ExecutionResult")
           => \E i \in CallsOf("process_result") :
                  i < Len(calls) /\ calls[i + 1] = "create_response"
    /\ engine = "SubscriptionExecutionResult"
           => CallsOf("_handle_errors") = {} /\ CallsOf("process_result") = {}
    /\ response.kind = "http-error" => CallsOf("_handle_errors") = {}

C19_HookAfterExecute ==
    /\ run_pc = "done"
    /\ engine = "ExecutionResult(errors)"
    /\ calls = <<"get_sub_response", "get_context", "get_root_value",
                 "execute", "process_result", "_handle_errors",
                 "create_response">>
    /\ response.kind = "json"
====
